---- MODULE Spec2Model ----
(***************************************************************************)
(* Model of the marker CRUD service of images-on-map-server (src/main.go). *)
(*                                                                         *)
(* Three layers of values are kept apart, because the code converts        *)
(* between them on every request:                                          *)
(*   JSON   the request / response bodies   (lower-case fields, id)        *)
(*   Go     the Marker / Coords / Image structs (ID, Name, ...)            *)
(*   BSON   the stored documents             (key stands for "_id")        *)
(* A Go slice and a JSON / BSON array value carry their nil / null flag.   *)
(* Coordinates are whole degrees.  A Go error is the tuple of its message  *)
(* parts, nil being the empty tuple.                                       *)
(*                                                                         *)
(* The document store is the environment: a set of documents on which      *)
(* InsertOne, DeleteOne, ReplaceOne and Find act atomically, and a call    *)
(* that fails for an infrastructure reason has not been applied.           *)
(***************************************************************************)
EXTENDS Integers, Sequences, FiniteSets, TLC

\* Longest image sequence of a request body.
MaxImages == 2

SeqsUpTo(S, n) == UNION {[1..k -> S] : k \in 0..n}

NoErr == <<>>

-----------------------------------------------------------------------------
(* Go values: type Marker, Coords, Image; their methods.                   *)

EmptySlice == [isNil |-> FALSE, elems |-> <<>>]

NormalizeIdentity(m) == m

\* func (m Marker) Normalize() Marker
Normalize(m) ==
    IF m.Images.isNil THEN [m EXCEPT !.Images = EmptySlice] ELSE m

\* func (c Coords) Validate() error
CoordsValidate(c) ==
    IF c.Latitude < -180 \/ c.Latitude > 180 THEN <<"invalid latitude">>
    ELSE IF c.Longitude < -90 \/ c.Longitude > 90 THEN <<"invalid longitude">>
    ELSE NoErr

\* func (i Image) Validate() error
ImageValidate(i) ==
    IF i.ID = "" THEN <<"empty id">>
    ELSE IF i.URI = "" THEN <<"empty uri">>
    ELSE IF i.Width <= 0 \/ i.Height <= 0 THEN <<"invalid dimensions">>
    ELSE NoErr

ImagesValidateLast(elems, k) ==
    LET bad == {n \in k..Len(elems) : ImageValidate(elems[n]) # NoErr}
        last == CHOOSE n \in bad : \A m \in bad : m <= n
    IN  IF bad = {} THEN NoErr
        ELSE <<"invalid image", elems[last].ID>> \o ImageValidate(elems[last])

\* The loop of Marker.Validate over m.Images, from position k on.
RECURSIVE ImagesValidate(_, _)
ImagesValidate(elems, k) ==
    IF k > Len(elems) THEN NoErr
    ELSE IF ImageValidate(elems[k]) # NoErr
         THEN <<"invalid image", elems[k].ID>> \o ImageValidate(elems[k])
         ELSE ImagesValidate(elems, k + 1)

\* func (m Marker) Validate() error
Validate(m) ==
    IF m.ID = "" THEN <<"empty id">>
    ELSE IF m.Name = "" THEN <<"empty name">>
    ELSE IF CoordsValidate(m.Location) # NoErr
         THEN <<"invalid location">> \o CoordsValidate(m.Location)
         ELSE ImagesValidate(m.Images.elems, 1)

-----------------------------------------------------------------------------
(* Conversions: the json and bson struct tags of Marker, Coords, Image.    *)

\* encoding/json into Image, by the json tags.
ImageFromJSON(j) ==
    [ID |-> j.id, URI |-> j.uri, Width |-> j.width, Height |-> j.height]

ImageToJSON(i) ==
    [id |-> i.ID, uri |-> i.URI, width |-> i.Width, height |-> i.Height]

\* c.Bind(&body) on a well-formed body: JSON null gives a nil slice.
MarkerFromJSON(j) ==
    [ID |-> j.id, Name |-> j.name,
     Location |-> [Latitude |-> j.location.latitude,
                   Longitude |-> j.location.longitude],
     Images |-> [isNil |-> j.images.isNull,
                 elems |-> [k \in 1..Len(j.images.arr) |->
                               ImageFromJSON(j.images.arr[k])]]]

\* c.JSON(http.StatusOK, results): a nil slice is written as JSON null.
MarkerToJSON(m) ==
    [id |-> m.ID, name |-> m.Name,
     location |-> [latitude |-> m.Location.Latitude,
                   longitude |-> m.Location.Longitude],
     images |-> [isNull |-> m.Images.isNil,
                 arr |-> [k \in 1..Len(m.Images.elems) |->
                             ImageToJSON(m.Images.elems[k])]]]

\* The bson tags: ID goes to "_id" (key); a nil slice is written as null.
ImageToBSON(i) ==
    [key |-> i.ID, uri |-> i.URI, width |-> i.Width, height |-> i.Height]

ImageFromBSON(b) ==
    [ID |-> b.key, URI |-> b.uri, Width |-> b.width, Height |-> b.height]

MarkerToBSON(m) ==
    [key |-> m.ID, name |-> m.Name,
     location |-> [latitude |-> m.Location.Latitude,
                   longitude |-> m.Location.Longitude],
     images |-> [isNull |-> m.Images.isNil,
                 arr |-> [k \in 1..Len(m.Images.elems) |->
                             ImageToBSON(m.Images.elems[k])]]]

\* cursor.All(..., &results) decoding one document.
MarkerFromBSON(d) ==
    [ID |-> d.key, Name |-> d.name,
     Location |-> [Latitude |-> d.location.latitude,
                   Longitude |-> d.location.longitude],
     Images |-> [isNil |-> d.images.isNull,
                 elems |-> [k \in 1..Len(d.images.arr) |->
                               ImageFromBSON(d.images.arr[k])]]]

-----------------------------------------------------------------------------
(* The document store: collection "markers", "_id" the primary key.        *)

HasKey(s, k) == \E d \in s : d.key = k

DocOf(s, k) == CHOOSE d \in s : d.key = k

InsertOneOverwrite(s, doc) ==
    [store |-> {d \in s : d.key # doc.key} \cup {doc}, err |-> "nil"]

\* Collection.InsertOne: write error 11000 on a key already present.
InsertOne(s, doc) ==
    IF HasKey(s, doc.key) THEN [store |-> s, err |-> "E11000"]
    ELSE [store |-> s \cup {doc}, err |-> "nil"]

DeleteOneAll(s, k) == [store |-> {}, err |-> "nil"]

\* Collection.DeleteOne with filter {"_id": id}: no match is no error.
DeleteOne(s, k) ==
    IF HasKey(s, k) THEN [store |-> s \ {DocOf(s, k)}, err |-> "nil"]
    ELSE [store |-> s, err |-> "nil"]

ReplaceOneMerge(s, k, doc) ==
    IF HasKey(s, k)
    THEN [store |-> (s \ {DocOf(s, k)}) \cup
                    {[doc EXCEPT !.images.arr = DocOf(s, k).images.arr \o @]},
          err |-> "nil"]
    ELSE [store |-> s, err |-> "nil"]

ReplaceOneUpsert(s, k, doc) ==
    [store |-> {d \in s : d.key # k} \cup {doc}, err |-> "nil"]

\* Collection.ReplaceOne with filter {"_id": id} and no options: no upsert,
\* no match is no error; "_id" is immutable.
ReplaceOne(s, k, doc) ==
    IF ~HasKey(s, k) THEN [store |-> s, err |-> "nil"]
    ELSE IF doc.key # k THEN [store |-> s, err |-> "E66"]
    ELSE [store |-> (s \ {DocOf(s, k)}) \cup {doc}, err |-> "nil"]

\* What Find with the empty filter followed by cursor.All decodes, as JSON.
ListView(s) == {MarkerToJSON(MarkerFromBSON(d)) : d \in s}

-----------------------------------------------------------------------------
(* The route handlers of main(), each as a function of the collection, the *)
(* request and the outcome of its store call(s).  A result names the       *)
(* collection afterwards, the response, and the store calls issued with    *)
(* the context each was given and the error each returned.                 *)

Response(status, err) == [status |-> status, err |-> err, results |-> {}]

Call(op, ctx, err) == [op |-> op, ctx |-> ctx, err |-> err]

Result(s, resp, calls) == [store |-> s, resp |-> resp, calls |-> calls]

\* group.GET("/", ...); fault is the store call that fails, if any.
GetHandler(s, fault) ==
    IF fault = "find"
    THEN Result(s, Response(503, <<"unavailable">>),
                <<Call("Find", "request", "unavailable")>>)
    ELSE IF fault = "all"
    THEN Result(s, Response(503, <<"unavailable">>),
                <<Call("Find", "request", "nil"),
                  Call("All", "background", "unavailable")>>)
    ELSE Result(s, [status |-> 200, err |-> NoErr, results |-> ListView(s)],
                <<Call("Find", "request", "nil"),
                  Call("All", "background", "nil")>>)

PostStoreRetry(s, m, fault) ==
    LET r == InsertOne(s, MarkerToBSON(Normalize(m)))
        calls == IF fault = "fail"
                 THEN <<Call("InsertOne", "request", "unavailable"),
                        Call("InsertOne", "request", r.err)>>
                 ELSE <<Call("InsertOne", "request", r.err)>>
    IN  IF r.err = "E11000"
        THEN Result(r.store, Response(400, <<"duplicated id">>), calls)
        ELSE Result(r.store, Response(201, NoErr), calls)

\* The InsertOne branch of the POST handler (lines 64-76).
PostStore(s, m, fault) ==
    LET r == IF fault = "fail" THEN [store |-> s, err |-> "unavailable"]
             ELSE InsertOne(s, MarkerToBSON(Normalize(m)))
        calls == <<Call("InsertOne", "request", r.err)>>
    IN  IF r.err = "E11000"
        THEN Result(r.store, Response(400, <<"duplicated id">>), calls)
        ELSE IF r.err # "nil"
        THEN Result(r.store, Response(503, <<r.err>>), calls)
        ELSE Result(r.store, Response(201, NoErr), calls)

\* group.POST("/", ...)
PostHandler(s, body, fault) ==
    IF body.malformed THEN Result(s, Response(400, <<"bind">>), <<>>)
    ELSE IF Validate(MarkerFromJSON(body.json)) # NoErr
    THEN Result(s, Response(400, Validate(MarkerFromJSON(body.json))), <<>>)
    ELSE PostStore(s, MarkerFromJSON(body.json), fault)

\* group.DELETE("/:id", ...)
DeleteHandler(s, id, fault) ==
    LET r == IF fault = "fail" THEN [store |-> s, err |-> "unavailable"]
             ELSE DeleteOne(s, id)
        calls == <<Call("DeleteOne", "request", r.err)>>
    IN  IF r.err # "nil"
        THEN Result(r.store, Response(503, <<r.err>>), calls)
        ELSE Result(r.store, Response(200, NoErr), calls)

\* The ReplaceOne branch of the PUT handler (lines 106-111).
PutStore(s, id, m, fault) ==
    LET r == IF fault = "fail" THEN [store |-> s, err |-> "unavailable"]
             ELSE ReplaceOne(s, id, MarkerToBSON(Normalize(m)))
        calls == <<Call("ReplaceOne", "request", r.err)>>
    IN  IF r.err # "nil"
        THEN Result(r.store, Response(503, <<r.err>>), calls)
        ELSE Result(r.store, Response(200, NoErr), calls)

PutHandlerValidateFirst(s, id, body, fault) ==
    IF body.malformed THEN Result(s, Response(400, <<"bind">>), <<>>)
    ELSE IF Validate(MarkerFromJSON(body.json)) # NoErr
    THEN Result(s, Response(400, Validate(MarkerFromJSON(body.json))), <<>>)
    ELSE IF body.json.id # id
    THEN Result(s, Response(400, <<"id in path and body doesn't match">>), <<>>)
    ELSE PutStore(s, id, MarkerFromJSON(body.json), fault)

\* group.PUT("/:id", ...)
PutHandler(s, id, body, fault) ==
    IF body.malformed THEN Result(s, Response(400, <<"bind">>), <<>>)
    ELSE IF body.json.id # id
    THEN Result(s, Response(400, <<"id in path and body doesn't match">>), <<>>)
    ELSE IF Validate(MarkerFromJSON(body.json)) # NoErr
    THEN Result(s, Response(400, Validate(MarkerFromJSON(body.json))), <<>>)
    ELSE PutStore(s, id, MarkerFromJSON(body.json), fault)

-----------------------------------------------------------------------------
(* Requests.                                                               *)

PathIds == {"a", "b"}

Ids == {""} \cup PathIds

Names == {"", "n", "m"}

Lats == {180, 181}

Lons == {-90}

ImageIds == {"i", "j"}

JSONImages ==
    [id : ImageIds, uri : {"u"}, width : {1}, height : {1}]

JSONArrays(imgs, n) ==
    {[isNull |-> TRUE, arr |-> <<>>]} \cup
    {[isNull |-> FALSE, arr |-> a] : a \in SeqsUpTo(imgs, n)}

JSONMarkers ==
    [id : Ids, name : Names,
     location : [latitude : Lats, longitude : Lons],
     images : JSONArrays(JSONImages, MaxImages)]

ZeroJSON ==
    [id |-> "", name |-> "", location |-> [latitude |-> 0, longitude |-> 0],
     images |-> [isNull |-> TRUE, arr |-> <<>>]]

\* A request body: not JSON at all, or a JSON marker.
Bodies ==
    {[malformed |-> TRUE, json |-> ZeroJSON]} \cup
    {[malformed |-> FALSE, json |-> j] : j \in JSONMarkers}

NoBody == [malformed |-> FALSE, json |-> ZeroJSON]

Request(op, id, body) == [op |-> op, id |-> id, body |-> body]

NoRequest == Request("none", "", NoBody)

NoResponse == Response(0, NoErr)

-----------------------------------------------------------------------------
(* Requests served one after the other.                                    *)

\* The longest run of requests in flight at once.
MaxInFlight == 2

Slots == 1..MaxInFlight

\* A request in flight: pc is "idle", "store" (a store call is pending),
\* "cursor" (cursor.All is pending) or "done" (the response is written);
\* ctx is the context the pending call was given; cancelled tells that the
\* request's own context has been cancelled.
Task(r, pc, ctx, cancelled, rsp) ==
    [req |-> r, pc |-> pc, ctx |-> ctx, cancelled |-> cancelled, resp |-> rsp]

IdleTask == Task(NoRequest, "idle", "none", FALSE, NoResponse)

\* store      the collection "markers"
\* req, resp, calls   the request being served, its response and the store
\*            calls it issued (requests served one after the other)
\* tasks      the requests in flight (requests served concurrently)
\* lastWrite  per id, the slot whose write was the last the store applied
VARIABLES store, req, resp, calls, tasks, lastWrite

vars == <<store, req, resp, calls, tasks, lastWrite>>

Init ==
    /\ store = {}
    /\ req = NoRequest
    /\ resp = NoResponse
    /\ calls = <<>>
    /\ tasks = [t \in Slots |-> IdleTask]
    /\ lastWrite = [k \in PathIds |-> 0]

Idle == req = NoRequest

Serve(r, out) ==
    /\ req' = r
    /\ store' = out.store
    /\ resp' = out.resp
    /\ calls' = out.calls
    /\ UNCHANGED <<tasks, lastWrite>>

\* A GET is also served while the previous response is still on record, so
\* that what it returns can be compared with the request before it.
List ==
    \E fault \in {"none", "find", "all"} :
        Serve(Request("GET", "", NoBody), GetHandler(store, fault))

Create ==
    /\ Idle
    /\ \E body \in Bodies, fault \in {"none", "fail"} :
        Serve(Request("POST", "", body), PostHandler(store, body, fault))

Delete ==
    /\ Idle
    /\ \E id \in PathIds, fault \in {"none", "fail"} :
        Serve(Request("DELETE", id, NoBody), DeleteHandler(store, id, fault))

Update ==
    /\ Idle
    /\ \E id \in PathIds, body \in Bodies, fault \in {"none", "fail"} :
        Serve(Request("PUT", id, body), PutHandler(store, id, body, fault))

\* The handler has returned: the request's values are gone.
Done ==
    /\ req # NoRequest
    /\ req' = NoRequest
    /\ resp' = NoResponse
    /\ calls' = <<>>
    /\ UNCHANGED <<store, tasks, lastWrite>>

Next == List \/ Create \/ Delete \/ Update \/ Done

Spec == Init /\ [][Next]_vars

-----------------------------------------------------------------------------
(* What the contract says of a payload, stated on the JSON it arrives as.  *)

\* The payload as it is to be listed: a null image sequence reads as empty.
NormalJSON(j) == [j EXCEPT !.images = [isNull |-> FALSE, arr |-> j.images.arr]]

ValidJSONImage(i) == i.id # "" /\ i.uri # "" /\ i.width > 0 /\ i.height > 0

ValidJSON(j) ==
    /\ j.id # "" /\ j.name # ""
    /\ j.location.latitude \in -180..180
    /\ j.location.longitude \in -90..90
    /\ \A k \in 1..Len(j.images.arr) : ValidJSONImage(j.images.arr[k])

Keys(s) == {d.key : d \in s}

WithId(js, id) == {j \in js : j.id = id}

\* The store call of the request just served failed for lack of service.
Unavailable(cs) == \E k \in 1..Len(cs) : cs[k].err = "unavailable"

\* C1: a valid payload with a fresh id is created with 201, and a List that
\* follows the Create returns that marker, and no other of that id, with id,
\* name, location and images as in the payload, null images read as empty.
C1_CreateThenList ==
    [][ /\ ( /\ Idle /\ req'.op = "POST" /\ ~req'.body.malformed
             /\ ValidJSON(req'.body.json)
             /\ req'.body.json.id \notin Keys(store)
             /\ ~Unavailable(calls') )
           => resp'.status = 201
        /\ ( /\ req.op = "POST" /\ resp.status = 201
             /\ req'.op = "GET" /\ resp'.status = 200 )
           => WithId(resp'.results, req.body.json.id)
                 = {NormalJSON(req.body.json)} ]_vars

C1_Witness ==
    /\ req.op = "POST" /\ resp.status = 201
    /\ req.body.json.images.isNull
    /\ Cardinality(store) = 2
    /\ NormalJSON(req.body.json) \in ListView(store)

\* C2: a valid Create of an id not in the store answers 201 and stores the
\* payload; a valid Create of an id that is in the store answers 400
\* "duplicated id" and leaves the collection as it was, whatever the payload.
C2_DuplicateCreate ==
    [][ ( /\ Idle /\ req'.op = "POST" /\ ~req'.body.malformed
          /\ ValidJSON(req'.body.json) /\ ~Unavailable(calls') )
        => IF req'.body.json.id \in Keys(store)
           THEN /\ resp' = Response(400, <<"duplicated id">>)
                /\ store' = store
           ELSE /\ resp' = Response(201, NoErr)
                /\ ListView(store')
                     = ListView(store) \cup {NormalJSON(req'.body.json)} ]_vars

C2_Witness ==
    /\ req.op = "POST" /\ resp = Response(400, <<"duplicated id">>)
    /\ req.body.json.id \in Keys(store)
    /\ NormalJSON(req.body.json) \notin ListView(store)

\* C3 as stated: after an Update answered 200, List shows the marker of that
\* id with the payload's fields, whatever the collection held before.
C3_Original ==
    [][ ( /\ req.op = "PUT" /\ resp.status = 200
          /\ req'.op = "GET" /\ resp'.status = 200 )
        => WithId(resp'.results, req.id) = {NormalJSON(req.body.json)} ]_vars

\* C3 amended: a valid Update with matching ids whose store call does not
\* fail answers 200; when the id was stored, the document is replaced in
\* full by the payload and the other documents are kept, and List shows it;
\* when the id was not stored, the collection is left as it was.
C3_Amended ==
    [][ /\ ( /\ Idle /\ req'.op = "PUT" /\ ~req'.body.malformed
             /\ req'.body.json.id = req'.id /\ ValidJSON(req'.body.json)
             /\ ~Unavailable(calls') )
           => /\ resp' = Response(200, NoErr)
              /\ IF req'.id \in Keys(store)
                 THEN ListView(store')
                        = (ListView(store) \ WithId(ListView(store), req'.id))
                            \cup {NormalJSON(req'.body.json)}
                 ELSE store' = store
        /\ ( /\ req.op = "PUT" /\ resp.status = 200
             /\ req'.op = "GET" /\ resp'.status = 200 )
           => /\ resp'.results = ListView(store)
              /\ WithId(resp'.results, req.id) \subseteq
                   {NormalJSON(req.body.json)} ]_vars

C3_Witness ==
    /\ req.op = "PUT" /\ resp.status = 200
    /\ \E d \in store :
          /\ d.key = req.id
          /\ Len(d.images.arr) = 1
          /\ Len(req.body.json.images.arr) = 1

C3_WitnessMissing ==
    req.op = "PUT" /\ resp.status = 200 /\ req.id \notin Keys(store)

\* C4: an Update whose body id differs from the path id answers 400 "id in
\* path and body doesn't match", issues no store call and leaves the
\* collection as it was, also when the body would fail validation.
C4_IdMismatch ==
    [][ ( /\ Idle /\ req'.op = "PUT" /\ ~req'.body.malformed
          /\ req'.body.json.id # req'.id )
        => /\ resp' = Response(400, <<"id in path and body doesn't match">>)
           /\ calls' = <<>>
           /\ store' = store ]_vars

C4_Witness ==
    /\ req.op = "PUT" /\ ~req.body.malformed
    /\ req.body.json.id = "" /\ req.body.json.name = ""
    /\ resp = Response(400, <<"id in path and body doesn't match">>)
    /\ store # {}

\* C5: Delete issues one delete-by-id; when it does not fail it answers 200
\* and the collection afterwards is the one before without the document of
\* that id (so unchanged when there was none), and a second Delete of the
\* id changes nothing more.
C5_Delete ==
    [][ ( Idle /\ req'.op = "DELETE" )
        => /\ Len(calls') = 1 /\ calls'[1].op = "DeleteOne"
           /\ ~Unavailable(calls')
                => /\ resp' = Response(200, NoErr)
                   /\ store' = {d \in store : d.key # req'.id}
                   /\ req'.id \notin Keys(store) => store' = store
                   /\ DeleteHandler(store', req'.id, "none").store = store'
           /\ Unavailable(calls') => store' = store ]_vars

C5_Witness ==
    /\ req.op = "DELETE" /\ resp.status = 200
    /\ store # {} /\ req.id \notin Keys(store)

\* C8: a store call that fails is the request's last store call and the
\* response is 503 (400 for the duplicate key of Create); no store call is
\* issued twice by one request; a request answered 400 or 503 leaves the
\* collection as it was.
C8_NoRetry ==
    [][ req' # NoRequest
        => /\ \A k \in 1..Len(calls') :
                /\ calls'[k].err = "unavailable"
                     => k = Len(calls') /\ resp'.status = 503
                /\ calls'[k].err = "E11000"
                     => /\ k = Len(calls') /\ req'.op = "POST"
                        /\ resp'.status = 400
                /\ calls'[k].err = "nil" /\ k = Len(calls')
                     => resp'.status \in {200, 201}
                /\ \A l \in 1..Len(calls') : calls'[l].op = calls'[k].op => l = k
           /\ resp'.status \in {400, 503} => store' = store
           /\ resp'.status \in {200, 201, 400, 503} ]_vars

C8_Witness ==
    /\ req.op = "PUT" /\ resp.status = 503
    /\ calls = <<Call("ReplaceOne", "request", "unavailable")>>
    /\ store # {}

\* Every stored marker passes validation, has a non-null image sequence and
\* shares its id with no other stored marker.
StoreOK ==
    \A d \in store :
        /\ ValidJSON(MarkerToJSON(MarkerFromBSON(d)))
        /\ ~d.images.isNull
        /\ \A e \in store : e.key = d.key => e = d

\* How one request changes the set of stored ids; what an Update writes is
\* stored under the id of its path.
KeysStep ==
    /\ Keys(store') \ Keys(store) # {}
         => /\ req'.op = "POST" /\ resp'.status = 201
            /\ Keys(store') = Keys(store) \cup {req'.body.json.id}
    /\ Keys(store) \ Keys(store') # {}
         => /\ req'.op = "DELETE" /\ resp'.status = 200
            /\ Keys(store') = Keys(store) \ {req'.id}
    /\ store' # store /\ req'.op = "PUT"
         => store' \ store = {MarkerToBSON(Normalize(MarkerFromJSON(req'.body.json)))}
            /\ \A d \in store' \ store : d.key = req'.id

-----------------------------------------------------------------------------
(* Validation on its own: one Create or Update of a payload drawn from     *)
(* wider sets, every field with values on both sides of its rule, on a     *)
(* collection that holds one marker.                                       *)

WideIds == {"", "a"}

WideNames == {"", "n"}

WideLats == {-181, -180, 180, 181}

WideLons == {-91, -90, 90, 91}

WideImages ==
    [id : {"", "i"}, uri : {"", "u"}, width : {0, 1}, height : {0, 1}]

WideMarkers ==
    [id : WideIds, name : WideNames,
     location : [latitude : WideLats, longitude : WideLons],
     images : JSONArrays(WideImages, MaxImages)]

WideBodies == {[malformed |-> FALSE, json |-> j] : j \in WideMarkers}

StoredA ==
    [key |-> "a", name |-> "n",
     location |-> [latitude |-> 180, longitude |-> -90],
     images |-> [isNull |-> FALSE, arr |-> <<>>]]

InitValidate ==
    /\ store = {StoredA}
    /\ req = NoRequest
    /\ resp = NoResponse
    /\ calls = <<>>
    /\ tasks = [t \in Slots |-> IdleTask]
    /\ lastWrite = [k \in PathIds |-> 0]

CreateWide ==
    /\ Idle
    /\ \E body \in WideBodies, fault \in {"none", "fail"} :
        Serve(Request("POST", "", body), PostHandler(store, body, fault))

UpdateWide ==
    /\ Idle
    /\ \E id \in WideIds \ {""}, body \in WideBodies, fault \in {"none", "fail"} :
        Serve(Request("PUT", id, body), PutHandler(store, id, body, fault))

NextValidate == CreateWide \/ UpdateWide

SpecValidate == InitValidate /\ [][NextValidate]_vars

\* The rules in the order of the contract, each with what it reports: the
\* four marker rules, then three rules for each image in sequence order.
MarkerRules(j) ==
    <<[bad |-> j.id = "", err |-> <<"empty id">>],
      [bad |-> j.name = "", err |-> <<"empty name">>],
      [bad |-> j.location.latitude \notin -180..180,
       err |-> <<"invalid location", "invalid latitude">>],
      [bad |-> j.location.longitude \notin -90..90,
       err |-> <<"invalid location", "invalid longitude">>]>>

ImageRules(i) ==
    <<[bad |-> i.id = "", err |-> <<"invalid image", i.id, "empty id">>],
      [bad |-> i.uri = "", err |-> <<"invalid image", i.id, "empty uri">>],
      [bad |-> ~(i.width > 0 /\ i.height > 0),
       err |-> <<"invalid image", i.id, "invalid dimensions">>]>>

Rules(j) ==
    MarkerRules(j) \o
    [n \in 1..(3 * Len(j.images.arr)) |->
        ImageRules(j.images.arr[((n - 1) \div 3) + 1])[((n - 1) % 3) + 1]]

Broken(rules) == {n \in 1..Len(rules) : rules[n].bad}

FirstViolation(rules) ==
    rules[CHOOSE n \in Broken(rules) : \A m \in Broken(rules) : n <= m].err

\* What the contract has a Create or matching Update of payload j do.
Validated(j, op, s, t, rsp, cs) ==
    LET rules == Rules(j)
    IN  IF Broken(rules) # {}
        THEN /\ rsp = Response(400, FirstViolation(rules))
             /\ cs = <<>>
             /\ t = s
        ELSE /\ Len(cs) = 1
             /\ cs[1].op = IF op = "POST" THEN "InsertOne" ELSE "ReplaceOne"

C6_WitnessValid ==
    /\ req.op = "POST" /\ Broken(Rules(req.body.json)) = {}
    /\ Len(req.body.json.images.arr) = MaxImages
    /\ resp.status = 201

-----------------------------------------------------------------------------
(* Requests served concurrently, one task per request (echo runs each      *)
(* handler in its own goroutine).  A handler runs on its own up to a store *)
(* call; the store applies the calls one at a time, in any order.  The     *)
(* request's context is cancelled when the client goes away or the         *)
(* request times out: a pending call that was given that context is        *)
(* abandoned, unapplied, with an error.  Store calls fail here for no      *)
(* other reason.                                                           *)

ConcLocation == [latitude |-> 180, longitude |-> -90]

ConcMarker(id, name, arr) ==
    [id |-> id, name |-> name, location |-> ConcLocation, images |-> arr]

ConcImage == [id |-> "i", uri |-> "u", width |-> 1, height |-> 1]

\* Two payloads for "a" that differ in name and in images, one for "b".
ConcMarkers ==
    {ConcMarker("a", "n", [isNull |-> TRUE, arr |-> <<>>]),
     ConcMarker("a", "m", [isNull |-> FALSE, arr |-> <<ConcImage>>]),
     ConcMarker("b", "n", [isNull |-> FALSE, arr |-> <<ConcImage, ConcImage>>])}

ConcBodies == {[malformed |-> FALSE, json |-> j] : j \in ConcMarkers}

\* The handler of request r on collection s, its store call failing or not.
Handle(r, s, fault) ==
    IF r.op = "POST" THEN PostHandler(s, r.body, fault)
    ELSE IF r.op = "PUT" THEN PutHandler(s, r.id, r.body, fault)
    ELSE DeleteHandler(s, r.id, fault)

\* The id a write request is about.
Target(r) == IF r.op = "POST" THEN r.body.json.id ELSE r.id

\* A write request arrives: the handler runs up to its store call, or
\* answers without one.
Accept(t, r) ==
    /\ tasks[t].pc = "idle"
    /\ tasks' = [tasks EXCEPT ![t] =
                    IF Handle(r, store, "none").calls = <<>>
                    THEN Task(r, "done", "none", FALSE, Handle(r, store, "none").resp)
                    ELSE Task(r, "store", "request", FALSE, NoResponse)]
    /\ UNCHANGED <<store, req, resp, calls, lastWrite>>

AcceptCreate == \E t \in Slots, body \in ConcBodies : Accept(t, Request("POST", "", body))

AcceptUpdate ==
    \E t \in Slots, body \in ConcBodies :
        Accept(t, Request("PUT", body.json.id, body))

AcceptDelete == \E t \in Slots, id \in PathIds : Accept(t, Request("DELETE", id, NoBody))

\* A GET arrives: Find is called with the request's context (line 38).
AcceptList ==
    \E t \in Slots :
        /\ tasks[t].pc = "idle"
        /\ tasks' = [tasks EXCEPT ![t] =
                        Task(Request("GET", "", NoBody), "store", "request",
                             FALSE, NoResponse)]
        /\ UNCHANGED <<store, req, resp, calls, lastWrite>>

\* The store applies the pending write of task t and the handler writes
\* its response.
WriteReturn ==
    \E t \in Slots :
        LET r == tasks[t].req
            out == Handle(r, store, "none")
            applied == /\ out.resp.status \in {200, 201}
                       /\ Target(r) \in Keys(store) \cup Keys(out.store)
        IN  /\ tasks[t].pc = "store" /\ r.op # "GET"
            /\ store' = out.store
            /\ tasks' = [tasks EXCEPT ![t] =
                            Task(r, "done", "none", @.cancelled, out.resp)]
            /\ lastWrite' = IF applied THEN [lastWrite EXCEPT ![Target(r)] = t]
                            ELSE lastWrite
            /\ UNCHANGED <<req, resp, calls>>

\* Find returns to task t and the handler calls cursor.All with
\* context.Background() (line 45).
FindReturn ==
    \E t \in Slots :
        /\ tasks[t].pc = "store" /\ tasks[t].req.op = "GET"
        /\ tasks' = [tasks EXCEPT ![t] =
                        Task(@.req, "cursor", "background", @.cancelled,
                             NoResponse)]
        /\ UNCHANGED <<store, req, resp, calls, lastWrite>>

\* cursor.All returns to task t and the handler writes its response.
CursorReturn ==
    \E t \in Slots :
        /\ tasks[t].pc = "cursor"
        /\ tasks' = [tasks EXCEPT ![t] =
                        Task(@.req, "done", "none", @.cancelled,
                             GetHandler(store, "none").resp)]
        /\ UNCHANGED <<store, req, resp, calls, lastWrite>>

\* The context of task t's request is cancelled while a store call is
\* pending: a call given that context returns the context's error and the
\* handler answers 503; a call given another context stays pending.
Cancel ==
    \E t \in Slots :
        /\ tasks[t].pc \in {"store", "cursor"} /\ ~tasks[t].cancelled
        /\ tasks' = [tasks EXCEPT ![t] =
                        IF @.ctx = "request"
                        THEN Task(@.req, "done", "none", TRUE,
                                  Response(503, <<"context canceled">>))
                        ELSE Task(@.req, @.pc, @.ctx, TRUE, @.resp)]
        /\ UNCHANGED <<store, req, resp, calls, lastWrite>>

\* The handler of task t has returned.
Finish ==
    \E t \in Slots :
        /\ tasks[t].pc = "done"
        /\ tasks' = [tasks EXCEPT ![t] = IdleTask]
        /\ lastWrite' = [k \in PathIds |-> IF lastWrite[k] = t THEN 0 ELSE lastWrite[k]]
        /\ UNCHANGED <<store, req, resp, calls>>

NextConc ==
    \/ AcceptList \/ AcceptCreate \/ AcceptUpdate \/ AcceptDelete
    \/ WriteReturn \/ FindReturn \/ CursorReturn \/ Cancel \/ Finish

SpecConc == Init /\ [][NextConc]_vars

\* C7: once a request's context is cancelled, no store call of that request
\* is still pending.
C7_CallsBoundToRequest ==
    \A t \in Slots : tasks[t].cancelled => tasks[t].pc \notin {"store", "cursor"}

\* The document of an id whose last applied write is an Update is that
\* Update's payload in full.
LastWriteWins ==
    \A k \in PathIds :
        ( lastWrite[k] # 0 /\ tasks[lastWrite[k]].req.op = "PUT" )
        => WithId(ListView(store), k)
              = {NormalJSON(tasks[lastWrite[k]].req.body.json)}

\* An Update answered 200 adds, removes and changes no document of another
\* id.
UpdateFrame ==
    \A t \in Slots :
        ( /\ tasks[t].pc = "store" /\ tasks[t].req.op = "PUT"
          /\ tasks'[t].pc = "done" /\ tasks'[t].resp.status = 200 )
        => /\ Keys(store') = Keys(store)
           /\ \A d \in store : d.key # tasks[t].req.id => d \in store'

\* C9: under every interleaving of Updates of one id, the document stored
\* for that id is in full the payload of the Update the store applied last,
\* never a mixture of payloads, and no Update changes another marker.
C9_LastWriteWins == []LastWriteWins /\ [][UpdateFrame]_vars

C9_Witness ==
    /\ \A t \in {1, 2} :
          /\ tasks[t].req.op = "PUT" /\ tasks[t].req.id = "a"
          /\ tasks[t].pc = "done" /\ tasks[t].resp.status = 200
    /\ tasks[1].req.body # tasks[2].req.body
    /\ lastWrite["a"] = 1
    /\ Keys(store) = {"a", "b"}

====
